---- MODULE Spec2Model ----
(***************************************************************************)
(* A model of the scene graph and action scheduler of swing-copters-rs:    *)
(* src/src/sprite.rs (Sprite: attributes, children, lookup, draw) and      *)
(* src/src/scene.rs (Scene: root children, lookup, running table, update). *)
(*                                                                         *)
(* Sprites live in an arena `sprites` (a sequence; the position of a       *)
(* sprite in it is its slot).  Rust's exclusive ownership makes the owner  *)
(* of every sprite unique: the caller (`detached`), the Scene (`children`) *)
(* or exactly one other sprite (its `children` field).                     *)
(***************************************************************************)
EXTENDS Integers, Sequences, FiniteSets, TLC

VARIABLES
    sprites,         \* arena: slot -> Sprite record
    detached,        \* slots of the sprites the caller still owns
    children,        \* Scene.children: Vec<Sprite>, as slots (scene.rs:24)
    children_index,  \* Scene.children_index: HashMap<Uuid, uint> (scene.rs:25)
    running,         \* Scene.running: HashMap<Uuid, Vec<(State, ActionState)>>
    failed,          \* TRUE once a call has panicked (task failure)
    op,              \* the last call and what it returned
    ticks,           \* number of update calls that found a pair to advance
    registered       \* history: the ids passed to run_action, in call order

vars == <<sprites, detached, children, children_index, running, failed, op,
          ticks, registered>>

\* number of run_action calls so far
nreg == Len(registered)

----------------------------------------------------------------------------
(* Bounds of the model. *)

\* sprites created in the tree specification
TreeMaxSprites == 3

\* sprites created, run_action calls and update calls in the scheduler
\* specification
SchedMaxSprites == 2
SchedMaxPairs == 2
SchedMaxTicks == 2

\* run_action calls in the scheduler specification with three registrations
WideMaxPairs == 3

\* sprites created in the drawing specification
DrawMaxSprites == 2

\* sprites created in the specification of the flips
FlipMaxSprites == 2

\* sprites created in the specification of the bounding box
BoxMaxSprites == 2

----------------------------------------------------------------------------
(* Values. *)

\* Option<T>
None == <<>>
Some(x) == <<x>>

\* Uuid::new_v4() of the n-th sprite created: a fresh value, never a slot.
Uuid_new_v4(n) == <<"uuid", n>>

\* A uuid that belongs to no sprite this program ever creates.
ForeignUuid == <<"uuid", 0>>

\* HashMap::new()
EmptyMap == << >>

\* HashMap::insert(k, v): the new value replaces an old one under the same key.
MapInsert(m, k, v) == (k :> v) @@ m

\* The texture every sprite is created from (its size is all the model reads).
Texture == [w |-> 64, h |-> 64]

\* Sprite::from_texture
Sprite_from_texture(n, texture) ==
    [ id             |-> Uuid_new_v4(n),
      anchor         |-> <<1, 1>>,        \* in halves: [0.5, 0.5]
      position       |-> <<0, 0>>,
      rotation       |-> 0,
      scale          |-> <<1, 1>>,
      flip_x         |-> FALSE,
      flip_y         |-> FALSE,
      texture        |-> texture,
      children       |-> <<>>,
      children_index |-> EmptyMap ]

\* Sprite::id
Sprite_id(sp, slot) == sp[slot].id

----------------------------------------------------------------------------
(* Lookup.  Vec indices are 0-based in the code: children[i] is             *)
(* children[i + 1] here.                                                    *)

RECURSIVE Sprite_child(_, _, _)
RECURSIVE Sprite_child_scan(_, _, _, _)
RECURSIVE Sprite_child_mut(_, _, _)
RECURSIVE Sprite_child_mut_scan(_, _, _, _)

\* the `for child in self.children.iter()` loop of Sprite::child, from child i on
Sprite_child_scan(sp, kids, id, i) ==
    IF i > Len(kids) THEN None
    ELSE LET c == Sprite_child(sp, kids[i], id)
         IN  IF c # None THEN c
             ELSE Sprite_child_scan(sp, kids, id, i + 1)

\* Sprite::child
Sprite_child(sp, slot, id) ==
    IF id \in DOMAIN sp[slot].children_index
    THEN Some(sp[slot].children[sp[slot].children_index[id] + 1])
    ELSE Sprite_child_scan(sp, sp[slot].children, id, 1)

\* Sprite::child_mut's loop without the recursion: direct children only.
Sprite_child_mut_scan_NoDescent(sp, kids, id, i) == None

\* the `for child in self.children.mut_iter()` loop of Sprite::child_mut
Sprite_child_mut_scan(sp, kids, id, i) ==
    IF i > Len(kids) THEN None
    ELSE LET c == Sprite_child_mut(sp, kids[i], id)
         IN  IF c # None THEN c
             ELSE Sprite_child_mut_scan(sp, kids, id, i + 1)

\* Sprite::child_mut
Sprite_child_mut(sp, slot, id) ==
    IF id \in DOMAIN sp[slot].children_index
    THEN Some(sp[slot].children[sp[slot].children_index[id] + 1])
    ELSE Sprite_child_mut_scan(sp, sp[slot].children, id, 1)

RECURSIVE Scene_child_scan(_, _, _, _)
RECURSIVE Scene_child_mut_scan(_, _, _, _)

\* Scene::child's loop returning the first child's answer, found or not.
Scene_child_scan_FirstOnly(sp, kids, id, i) ==
    IF i > Len(kids) THEN None ELSE Sprite_child(sp, kids[i], id)

\* the `for child in self.children.iter()` loop of Scene::child
Scene_child_scan(sp, kids, id, i) ==
    IF i > Len(kids) THEN None
    ELSE LET c == Sprite_child(sp, kids[i], id)
         IN  IF c # None THEN c
             ELSE Scene_child_scan(sp, kids, id, i + 1)

\* Scene::child answering a miss with its first child.
Scene_child_FirstOnMiss(sp, kids, index, id) ==
    IF id \in DOMAIN index
    THEN Some(kids[index[id] + 1])
    ELSE LET c == Scene_child_scan(sp, kids, id, 1)
         IN  IF c = None /\ kids # <<>> THEN Some(kids[1]) ELSE c

\* Scene::child
Scene_child(sp, kids, index, id) ==
    IF id \in DOMAIN index
    THEN Some(kids[index[id] + 1])
    ELSE Scene_child_scan(sp, kids, id, 1)

\* the `for child in self.children.mut_iter()` loop of Scene::child_mut
Scene_child_mut_scan(sp, kids, id, i) ==
    IF i > Len(kids) THEN None
    ELSE LET c == Sprite_child_mut(sp, kids[i], id)
         IN  IF c # None THEN c
             ELSE Scene_child_mut_scan(sp, kids, id, i + 1)

\* Scene::child_mut
Scene_child_mut(sp, kids, index, id) ==
    IF id \in DOMAIN index
    THEN Some(kids[index[id] + 1])
    ELSE Scene_child_mut_scan(sp, kids, id, 1)

----------------------------------------------------------------------------
(* The tree. *)

\* Sprite::add_child recording the place under the parent's own id.
Sprite_add_child_IndexesParent(sp, parent, slot) ==
    LET kids == Append(sp[parent].children, slot)
    IN  [sp EXCEPT ![parent].children = kids,
                   ![parent].children_index =
                       MapInsert(sp[parent].children_index, Sprite_id(sp, parent),
                                 Len(kids) - 1)]

\* Sprite::add_child on the sprite in slot `parent`, given the sprite in `slot`
Sprite_add_child(sp, parent, slot) ==
    LET id   == Sprite_id(sp, slot)
        kids == Append(sp[parent].children, slot)
    IN  [sp EXCEPT ![parent].children = kids,
                   ![parent].children_index =
                       MapInsert(sp[parent].children_index, id, Len(kids) - 1)]

\* Scene::new
Init ==
    /\ sprites = <<>>
    /\ detached = {}
    /\ children = <<>>
    /\ children_index = EmptyMap
    /\ running = EmptyMap
    /\ failed = FALSE
    /\ op = [name |-> "new"]
    /\ ticks = 0
    /\ registered = <<>>

\* let sprite = Sprite::from_texture(texture): the caller owns the new sprite
NewSprite(max) ==
    /\ ~failed
    /\ Len(sprites) < max
    /\ sprites' = Append(sprites, Sprite_from_texture(Len(sprites) + 1, Texture))
    /\ detached' = detached \cup {Len(sprites) + 1}
    /\ op' = [name |-> "from_texture"]
    /\ UNCHANGED <<children, children_index, running, failed, ticks, registered>>

\* Scene::add_child(sprite): the sprite moves from the caller into the Scene
SceneAddChild ==
    /\ ~failed
    /\ \E slot \in detached :
         LET id == Sprite_id(sprites, slot)
         IN  /\ children' = Append(children, slot)
             /\ children_index' = MapInsert(children_index, id, Len(children') - 1)
             /\ detached' = detached \ {slot}
             /\ op' = [name |-> "Scene::add_child", arg |-> slot, ret |-> id]
    /\ UNCHANGED <<sprites, running, failed, ticks, registered>>

RECURSIVE Descendants(_, _)
\* the slots owned, at any depth, by the sprite in `slot`
Descendants(sp, slot) ==
    LET kids == { sp[slot].children[i] : i \in DOMAIN sp[slot].children }
    IN  kids \cup UNION { Descendants(sp, k) : k \in kids }

\* The sprites the caller can get a &mut to: the ones it owns, their
\* descendants through Sprite::child_mut, and the sprites of the scene
\* through Scene::child_mut.
MutReachable ==
    detached
    \cup { s \in 1..Len(sprites) :
             \E r \in detached, n \in 1..Len(sprites) :
                Sprite_child_mut(sprites, r, Uuid_new_v4(n)) = Some(s) }
    \cup { s \in 1..Len(sprites) :
             \E n \in 1..Len(sprites) :
                Scene_child_mut(sprites, children, children_index, Uuid_new_v4(n)) = Some(s) }

\* parent.add_child(sprite), parent being any sprite the caller can reach.
\* The sprite is moved into the call, so no borrow of it or of a sprite it
\* owns is alive: the parent is outside the subtree of the sprite.
SpriteAddChild ==
    /\ ~failed
    /\ \E slot \in detached :
       \E parent \in MutReachable \ ({slot} \cup Descendants(sprites, slot)) :
         /\ sprites' = Sprite_add_child(sprites, parent, slot)
         /\ detached' = detached \ {slot}
         /\ op' = [name |-> "Sprite::add_child", arg |-> slot, on |-> parent,
                   ret |-> Sprite_id(sprites, slot)]
    /\ UNCHANGED <<children, children_index, running, failed, ticks, registered>>

\* the ids of the sprites created so far
IdsOfCreated == { sprites[s].id : s \in DOMAIN sprites }

\* The ids a caller may ask for: every id handed out so far, one not yet
\* handed out, and one that belongs to no sprite.
KnownUuids(max) == { Uuid_new_v4(n) : n \in 0..max }

\* scene.child(id)
SceneChild(max) ==
    /\ ~failed
    /\ \E id \in KnownUuids(max) :
         op' = [name |-> "Scene::child", arg |-> id,
                ret |-> Scene_child(sprites, children, children_index, id)]
    /\ UNCHANGED <<sprites, detached, children, children_index, running, failed,
                   ticks, registered>>

\* scene.child_mut(id)
SceneChildMut(max) ==
    /\ ~failed
    /\ \E id \in KnownUuids(max) :
         op' = [name |-> "Scene::child_mut", arg |-> id,
                ret |-> Scene_child_mut(sprites, children, children_index, id)]
    /\ UNCHANGED <<sprites, detached, children, children_index, running, failed,
                   ticks, registered>>

\* sprite.child(id) on a sprite the caller can reach
SpriteChild(max) ==
    /\ ~failed
    /\ \E id \in KnownUuids(max), s \in MutReachable :
         op' = [name |-> "Sprite::child", arg |-> id, on |-> s,
                ret |-> Sprite_child(sprites, s, id)]
    /\ UNCHANGED <<sprites, detached, children, children_index, running, failed,
                   ticks, registered>>

\* sprite.child_mut(id) on a sprite the caller can reach
SpriteChildMut(max) ==
    /\ ~failed
    /\ \E id \in KnownUuids(max), s \in MutReachable :
         op' = [name |-> "Sprite::child_mut", arg |-> id, on |-> s,
                ret |-> Sprite_child_mut(sprites, s, id)]
    /\ UNCHANGED <<sprites, detached, children, children_index, running, failed,
                   ticks, registered>>

TreeNext ==
    \/ NewSprite(TreeMaxSprites)
    \/ SceneAddChild
    \/ SpriteAddChild
    \/ SceneChild(TreeMaxSprites)
    \/ SceneChildMut(TreeMaxSprites)
    \/ SpriteChild(TreeMaxSprites)
    \/ SpriteChildMut(TreeMaxSprites)

\* Building the tree and looking sprites up.
SpecTree == Init /\ [][TreeNext]_vars

----------------------------------------------------------------------------
(* Actions and the behavior evaluator.  Neither is in src/: Action and      *)
(* ActionState come from the crate's action module, Behavior and State from *)
(* the event library.  They are modelled as the interfaces scene.rs uses:   *)
(* action.to_state(sprite), state.update(sprite, dt) -> (state, status,     *)
(* remain), State::new(behavior), a.update(e, f) -> (status, remain).       *)

\* ActionState::EmptyState
EmptyState == [kind |-> "EmptyState"]

\* Leaf actions.  MoveBy moves the target along x by dx over dur time units,
\* from where the target was when the action was bound.  Spin turns the
\* target by a quarter per time unit and never ends.
MoveBy(dur, dx) == [kind |-> "MoveBy", dur |-> dur, dx |-> dx]
Spin == [kind |-> "Spin"]

\* action.to_state(sprite): the state seeded from the target
Action_to_state(action, sprite) ==
    IF action.kind = "MoveBy"
    THEN [kind |-> "MoveBy", dur |-> action.dur, dx |-> action.dx,
          start |-> sprite.position, elapsed |-> 0]
    ELSE [kind |-> "Spin", elapsed |-> 0]

\* state.update(sprite, dt) -> (state, status, remain), and the target after it
ActionState_update(state, sprite, dt) ==
    IF state.kind = "MoveBy"
    THEN LET t == state.elapsed + dt
         IN  IF t >= state.dur
             THEN [state  |-> [state EXCEPT !.elapsed = state.dur],
                   status |-> "Success",
                   remain |-> t - state.dur,
                   sprite |-> [sprite EXCEPT !.position =
                                  <<state.start[1] + state.dx, state.start[2]>>]]
             ELSE [state  |-> [state EXCEPT !.elapsed = t],
                   status |-> "Running",
                   remain |-> 0,
                   sprite |-> [sprite EXCEPT !.position =
                                  <<state.start[1] + (state.dx * t) \div state.dur,
                                    state.start[2]>>]]
    ELSE [state  |-> [state EXCEPT !.elapsed = state.elapsed + dt],
          status |-> "Running",
          remain |-> 0,
          sprite |-> [sprite EXCEPT !.rotation = (sprite.rotation + 90 * dt) % 360]]

\* Behaviors
Action(a) == [kind |-> "Action", act |-> a]
Wait(t) == [kind |-> "Wait", t |-> t]
WaitForever == [kind |-> "WaitForever"]
Sequence(seq) == [kind |-> "Sequence", seq |-> seq]
Fail(a) == [kind |-> "Fail", act |-> a]

\* State::new(behavior): the cursor at the start of the behavior
State_new(behavior) == [b |-> behavior, i |-> 1, t |-> 0]

\* scene.rs:49-52 binding at every call, whatever the carried state.
Leaf_state_AlwaysBinds(action, s, sprite) == Action_to_state(action, sprite)

\* scene.rs:49-52: `match s { EmptyState => action.to_state(sprite), _ => s }`
Leaf_state(action, s, sprite) ==
    IF s = EmptyState THEN Action_to_state(action, sprite) ELSE s

\* The closure Scene::update hands to the evaluator (scene.rs:48-56), called
\* with a leaf action: bind when the carried state is EmptyState, then
\* update the carried state.  The result's `state` is the closure's new s.
Leaf(action, s, sprite, dt) ==
    ActionState_update(Leaf_state(action, s, sprite), sprite, dt)

\* the record of one call of the closure: the leaf action passed, the s it
\* found, the state it called update on, the target, and the s it left
LeafCall(action, s, sprite, r) ==
    [action |-> action, found |-> s, given |-> Leaf_state(action, s, sprite),
     target |-> sprite, left |-> r.state]

\* what an advance returns: the cursor, the pair's ActionState, the status,
\* the time left, the target, and the calls of the closure it made
Advanced(a, r, status, leafs) ==
    [a |-> a, s |-> r.state, status |-> status, remain |-> r.remain,
     sprite |-> r.sprite, calls |-> Len(leafs), leafs |-> leafs]

\* Fail turns the Success of its leaf into Failure
FailStatus(status) == IF status = "Success" THEN "Failure" ELSE status

RECURSIVE SequenceAdvance(_, _, _, _, _, _)
\* the evaluator on a sequence after leaf i returned r: a leaf that succeeds
\* hands the time it did not use to the next leaf, within the same call
SequenceStep(a, i, leafs, r) ==
    IF r.status = "Success" /\ i < Len(a.b.seq)
    THEN SequenceAdvance(a, i + 1, r.remain, r.state, r.sprite, leafs)
    ELSE Advanced([a EXCEPT !.i = i], r, r.status, leafs)

\* the evaluator on a sequence after its call of the closure for leaf i
\* returned r
SequenceLeaf(a, i, s, sprite, leafs, r) ==
    SequenceStep(a, i, Append(leafs, LeafCall(a.b.seq[i].act, s, sprite, r)), r)

\* the evaluator on a sequence of leaf actions, at leaf i
SequenceAdvance(a, i, dt, s, sprite, leafs) ==
    SequenceLeaf(a, i, s, sprite, leafs, Leaf(a.b.seq[i].act, s, sprite, dt))

\* the evaluator on Wait(t): no leaf is called
WaitAdvance(a, dt, s, sprite) ==
    IF a.t + dt >= a.b.t
    THEN [a |-> [a EXCEPT !.t = a.b.t], s |-> s, status |-> "Success",
          remain |-> a.t + dt - a.b.t, sprite |-> sprite, calls |-> 0,
          leafs |-> <<>>]
    ELSE [a |-> [a EXCEPT !.t = a.t + dt], s |-> s, status |-> "Running",
          remain |-> 0, sprite |-> sprite, calls |-> 0, leafs |-> <<>>]

\* the evaluator on an Action or on Fail(Action), given its leaf's result
ActionAdvance(a, s, sprite, r) ==
    Advanced(a, r, IF a.b.kind = "Fail" THEN FailStatus(r.status) ELSE r.status,
             <<LeafCall(a.b.act, s, sprite, r)>>)

\* a.update(e, f): one advance of the cursor `a` by the time dt of the event,
\* f being Leaf over the pair's ActionState s and its target
State_update(a, dt, s, sprite) ==
    CASE a.b.kind \in {"Action", "Fail"} ->
           ActionAdvance(a, s, sprite, Leaf(a.b.act, s, sprite, dt))
      [] a.b.kind = "Wait" -> WaitAdvance(a, dt, s, sprite)
      [] a.b.kind = "WaitForever" ->
           [a |-> a, s |-> s, status |-> "Running", remain |-> 0,
            sprite |-> sprite, calls |-> 0, leafs |-> <<>>]
      [] a.b.kind = "Sequence" -> SequenceAdvance(a, a.i, dt, s, sprite, <<>>)

\* the behaviors callers register
Behaviors ==
    { Action(MoveBy(1, 2)),
      Action(Spin),
      Wait(2),
      Fail(MoveBy(1, 2)),
      Sequence(<<Action(MoveBy(2, 4)), Action(MoveBy(1, 2))>>) }

\* the time an update event carries
Dts == {1}

----------------------------------------------------------------------------
(* The scheduler.  A pair of the running table is [a, s] as in the code,    *)
(* with two history fields the code does not have: pid, the number of the   *)
(* run_action call that made it, and n, how often it has been advanced.     *)

RECURSIVE Scene_update_actions(_, _, _, _, _, _, _, _, _)

\* scene.rs:58-64 dropping a pair on Failure only.
Scene_update_push_KeepSuccess(new_actions, pair, r) ==
    IF r.status # "Failure"
    THEN Append(new_actions,
                [a |-> r.a, s |-> r.s, pid |-> pair.pid, n |-> pair.n + 1])
    ELSE new_actions

\* scene.rs:58-64 pushing the ActionState the pair had before the advance.
Scene_update_push_OldState(new_actions, pair, r) ==
    IF r.status = "Running"
    THEN Append(new_actions,
                [a |-> r.a, s |-> pair.s, pid |-> pair.pid, n |-> pair.n + 1])
    ELSE new_actions

\* scene.rs:58-64 putting the pair at the front of new_actions.
Scene_update_push_Front(new_actions, pair, r) ==
    IF r.status = "Running"
    THEN <<[a |-> r.a, s |-> r.s, pid |-> pair.pid, n |-> pair.n + 1]>>
         \o new_actions
    ELSE new_actions

\* scene.rs:58-64: a pair whose status is Running is pushed for the next
\* update with its advanced cursor and state; any other status drops it
Scene_update_push(new_actions, pair, r) ==
    IF r.status = "Running"
    THEN Append(new_actions,
                [a |-> r.a, s |-> r.s, pid |-> pair.pid, n |-> pair.n + 1])
    ELSE new_actions

\* the record of one advance: the pair as the loop took it (a0, s0), the
\* target as child_mut found it (before), and what a.update left
LogEntry(id, pair, r, target) ==
    [pid |-> pair.pid, id |-> id, n |-> pair.n, status |-> r.status,
     calls |-> r.calls, leafs |-> r.leafs, a |-> r.a, s |-> r.s,
     a0 |-> pair.a, s0 |-> pair.s, before |-> target, after |-> r.sprite]

\* scene.rs:48-64 with each pair of the id given the target as the first
\* pair found it.
Scene_update_status_StaleTarget(sp, kids, index, id, actions, j, new_actions, log, dt, slot, r) ==
    Scene_update_actions(IF j = Len(actions) THEN [sp EXCEPT ![slot] = r.sprite] ELSE sp,
                         kids, index, id, actions,
                         j + 1, Scene_update_push(new_actions, actions[j], r),
                         Append(log, LogEntry(id, actions[j], r, sp[slot])), dt)

\* scene.rs:48-64 with the target's new position given to every sprite.
Scene_update_status_MovesAll(sp, kids, index, id, actions, j, new_actions, log, dt, slot, r) ==
    Scene_update_actions([s \in DOMAIN sp |->
                             IF s = slot THEN r.sprite
                             ELSE [sp[s] EXCEPT !.position = r.sprite.position]],
                         kids, index, id, actions,
                         j + 1, Scene_update_push(new_actions, actions[j], r),
                         Append(log, LogEntry(id, actions[j], r, sp[slot])), dt)

\* scene.rs:48-64 for pair j, r being what a.update did to the target in slot
Scene_update_status(sp, kids, index, id, actions, j, new_actions, log, dt, slot, r) ==
    Scene_update_actions([sp EXCEPT ![slot] = r.sprite], kids, index, id, actions,
                         j + 1, Scene_update_push(new_actions, actions[j], r),
                         Append(log, LogEntry(id, actions[j], r, sp[slot])), dt)

\* scene.rs:47-64 for pair j, found being self.child_mut(id)
Scene_update_pair(sp, kids, index, id, actions, j, new_actions, log, dt, found) ==
    IF found = None
    THEN \* self.child_mut(id).unwrap() panics
         [sprites |-> sp, new_actions |-> new_actions, log |-> log, failed |-> TRUE]
    ELSE Scene_update_status(sp, kids, index, id, actions, j, new_actions, log, dt,
                             found[1],
                             State_update(actions[j].a, dt, actions[j].s, sp[found[1]]))

\* the inner loop of Scene::update (scene.rs:46-65) over the pairs of id,
\* from pair j on; log records each advance made
Scene_update_actions(sp, kids, index, id, actions, j, new_actions, log, dt) ==
    IF j > Len(actions)
    THEN [sprites |-> sp, new_actions |-> new_actions, log |-> log, failed |-> FALSE]
    ELSE Scene_update_pair(sp, kids, index, id, actions, j, new_actions, log, dt,
                           Scene_child_mut(sp, kids, index, id))

\* scene.rs:67-69 without the test of new_actions.len().
Scene_update_insert_Always(new_running, id, new_actions) ==
    MapInsert(new_running, id, new_actions)

\* `if new_actions.len() > 0 { self.running.insert(id, new_actions) }`
Scene_update_insert(new_running, id, new_actions) ==
    IF Len(new_actions) > 0 THEN MapInsert(new_running, id, new_actions)
    ELSE new_running

RECURSIVE Scene_update_ids(_, _, _, _, _, _, _, _, _)

\* scene.rs:67-69 for the k-th id, r being the outcome of its inner loop
Scene_update_id(sp, kids, index, old, order, k, new_running, dt, r) ==
    IF r.failed
    THEN [sprites |-> r.sprites, running |-> new_running, log |-> r.log,
          failed |-> TRUE]
    ELSE Scene_update_ids(r.sprites, kids, index, old, order, k + 1,
                          Scene_update_insert(new_running, order[k], r.new_actions),
                          r.log, dt)

\* the outer loop of Scene::update (scene.rs:43-70) over the ids of the old
\* table in the order `order`, from the k-th on; new_running is self.running
Scene_update_ids(sp, kids, index, old, order, k, new_running, log, dt) ==
    IF k > Len(order)
    THEN [sprites |-> sp, running |-> new_running, log |-> log, failed |-> FALSE]
    ELSE Scene_update_id(sp, kids, index, old, order, k, new_running, dt,
                         Scene_update_actions(sp, kids, index, order[k],
                                              old[order[k]], 1, <<>>, log, dt))

\* Scene::update: the old table is taken, self.running starts empty
Scene_update(sp, kids, index, old, order, dt) ==
    Scene_update_ids(sp, kids, index, old, order, 1, EmptyMap, <<>>, dt)

\* the orders in which a HashMap may hand out its keys
Orders(keys) ==
    { o \in [1..Cardinality(keys) -> keys] :
        \A i, j \in 1..Cardinality(keys) : i # j => o[i] # o[j] }

\* Scene::run_action with insert in place of find_or_insert_with.
Scene_run_action_Replace(run, sprite_id, pair) ==
    MapInsert(run, sprite_id, <<pair>>)

\* Scene::run_action's table: find_or_insert_with(sprite_id, Vec::new), push
Scene_run_action(run, sprite_id, pair) ==
    IF sprite_id \in DOMAIN run
    THEN [run EXCEPT ![sprite_id] = Append(run[sprite_id], pair)]
    ELSE MapInsert(run, sprite_id, <<pair>>)

\* scene.run_action(sprite_id, action), with the id of any sprite created so
\* far or of none
RunAction(max) ==
    /\ ~failed
    /\ nreg < max
    /\ \E sprite_id \in IdsOfCreated \cup {ForeignUuid}, action \in Behaviors :
         /\ running' = Scene_run_action(running, sprite_id,
                          [a |-> State_new(action), s |-> EmptyState,
                           pid |-> nreg + 1, n |-> 0])
         /\ op' = [name |-> "run_action", id |-> sprite_id, action |-> action]
    /\ registered' = Append(registered, op'.id)
    /\ UNCHANGED <<sprites, detached, children, children_index, failed, ticks>>

\* the state scene.update(e) leaves, r being what Scene::update computed
UpdateTo(dt, r) ==
    /\ sprites' = r.sprites
    /\ running' = r.running
    /\ failed' = r.failed
    /\ op' = [name |-> "update", dt |-> dt, log |-> r.log]

\* scene.update(e); an update of an empty table is not counted
Update ==
    /\ ~failed
    /\ ticks < SchedMaxTicks
    /\ \E dt \in Dts, order \in Orders(DOMAIN running) :
         UpdateTo(dt, Scene_update(sprites, children, children_index, running, order, dt))
    /\ ticks' = IF running = EmptyMap THEN ticks ELSE ticks + 1
    /\ UNCHANGED <<detached, children, children_index, registered>>

\* scene.add_child(Sprite::from_texture(texture))
SceneAddNew(max) ==
    /\ ~failed
    /\ Len(sprites) < max
    /\ LET slot == Len(sprites) + 1
           id   == Uuid_new_v4(slot)
       IN  /\ sprites' = Append(sprites, Sprite_from_texture(slot, Texture))
           /\ children' = Append(children, slot)
           /\ children_index' = MapInsert(children_index, id, Len(children') - 1)
           /\ op' = [name |-> "Scene::add_child", arg |-> slot, ret |-> id]
    /\ UNCHANGED <<detached, running, failed, ticks, registered>>

\* scene.child_mut(parent_id).unwrap().add_child(Sprite::from_texture(texture))
SpriteAddNew(max) ==
    /\ ~failed
    /\ Len(sprites) < max
    /\ \E parent \in MutReachable :
         LET slot == Len(sprites) + 1
         IN  /\ sprites' = Sprite_add_child(
                               Append(sprites, Sprite_from_texture(slot, Texture)),
                               parent, slot)
             /\ op' = [name |-> "Sprite::add_child", arg |-> slot, on |-> parent,
                       ret |-> Uuid_new_v4(slot)]
    /\ UNCHANGED <<detached, children, children_index, running, failed, ticks, registered>>

\* In the scheduler specification the caller hands each new sprite to its
\* owner at once (sprites built before they are attached are the tree
\* specification's).
SchedNext ==
    \/ SceneAddNew(SchedMaxSprites)
    \/ SpriteAddNew(SchedMaxSprites)
    \/ RunAction(SchedMaxPairs)
    \/ Update

\* Building the tree, registering behaviors and ticking.
SpecSched == Init /\ [][SchedNext]_vars

WideNext ==
    \/ SceneAddNew(SchedMaxSprites)
    \/ SpriteAddNew(SchedMaxSprites)
    \/ RunAction(WideMaxPairs)
    \/ Update

\* The same with one more registration: two pairs of one sprite and a pair
\* of another id can be in the table together.
SpecSchedWide == Init /\ [][WideNext]_vars

----------------------------------------------------------------------------
(* Drawing.  A Context is modelled by its transform, a 2x3 affine matrix    *)
(* <<a, b, c, d, e, f>> for the rows (a b c) and (d e f); the graphics      *)
(* library (not in src/) post-multiplies: c.trans(x, y) is c * translate.   *)
(* Rotations are whole quarter turns, so the matrices stay integer.         *)

multiply(m, n) ==
    << m[1] * n[1] + m[2] * n[4], m[1] * n[2] + m[2] * n[5],
       m[1] * n[3] + m[2] * n[6] + m[3],
       m[4] * n[1] + m[5] * n[4], m[4] * n[2] + m[5] * n[5],
       m[4] * n[3] + m[5] * n[6] + m[6] >>

identity == <<1, 0, 0, 0, 1, 0>>
translate(x, y) == <<1, 0, x, 0, 1, y>>
scale_matrix(sx, sy) == <<sx, 0, 0, 0, sy, 0>>

\* cosine and sine of a whole number of quarter turns, in degrees
cos_deg(d) == CASE d % 360 = 0 -> 1 [] d % 360 = 180 -> -1 [] OTHER -> 0
sin_deg(d) == CASE d % 360 = 90 -> 1 [] d % 360 = 270 -> -1 [] OTHER -> 0
rotate_deg(d) == <<cos_deg(d), -sin_deg(d), 0, sin_deg(d), cos_deg(d), 0>>

\* Context::trans, Context::rot_deg, Context::scale, flip_h, flip_v
trans(c, x, y) == multiply(c, translate(x, y))
rot_deg(c, d) == multiply(c, rotate_deg(d))
scale(c, sx, sy) == multiply(c, scale_matrix(sx, sy))
flip_h(c) == multiply(c, scale_matrix(-1, 1))
flip_v(c) == multiply(c, scale_matrix(1, -1))

\* sprite.rs:166: anchor = [anchor[0] * w, anchor[1] * h] (anchor is in halves)
Sprite_anchor(sprite) ==
    << (sprite.anchor[1] * sprite.texture.w) \div 2,
       (sprite.anchor[2] * sprite.texture.h) \div 2 >>

\* sprite.rs:168-170: c.trans(position).rot_deg(rotation).scale(scale)
Sprite_transformed(sprite, c) ==
    scale(rot_deg(trans(c, sprite.position[1], sprite.position[2]),
                  sprite.rotation),
          sprite.scale[1], sprite.scale[2])

\* sprite.rs:177-179 mirroring without the shift.
Sprite_flip_x_NoShift(sprite, model) ==
    IF sprite.flip_x THEN flip_h(model) ELSE model

\* sprite.rs:177-179
Sprite_flip_x(sprite, model) ==
    IF sprite.flip_x
    THEN flip_h(trans(model, sprite.texture.w - 2 * Sprite_anchor(sprite)[1], 0))
    ELSE model

\* sprite.rs:181-183
Sprite_flip_y(sprite, model) ==
    IF sprite.flip_y
    THEN flip_v(trans(model, 0, sprite.texture.h - 2 * Sprite_anchor(sprite)[2]))
    ELSE model

\* sprite.rs:172-188: the image draw call of one sprite, given `transformed`
Sprite_draw_image(slot, sprite, transformed) ==
    [ sprite      |-> slot,
      transformed |-> transformed,
      model       |-> Sprite_flip_y(sprite, Sprite_flip_x(sprite, transformed)),
      rect        |-> << -Sprite_anchor(sprite)[1], -Sprite_anchor(sprite)[2],
                         sprite.texture.w, sprite.texture.h >> ]

RECURSIVE Sprite_draw(_, _, _)
RECURSIVE Sprite_draw_children(_, _, _, _)

\* the `for child in self.children.iter()` loop of Sprite::draw, from child
\* i on, with the context the loop passes
Sprite_draw_children(sp, kids, i, c) ==
    IF i > Len(kids) THEN <<>>
    ELSE Sprite_draw(sp, kids[i], c) \o Sprite_draw_children(sp, kids, i + 1, c)

\* Sprite::draw passing the caller's context on to the children.
Sprite_draw_CallerContextToChildren(sp, slot, c) ==
    <<Sprite_draw_image(slot, sp[slot], Sprite_transformed(sp[slot], c))>>
    \o Sprite_draw_children(sp, sp[slot].children, 1, c)

\* Sprite::draw: the draw calls it issues, in order
Sprite_draw(sp, slot, c) ==
    <<Sprite_draw_image(slot, sp[slot], Sprite_transformed(sp[slot], c))>>
    \o Sprite_draw_children(sp, sp[slot].children, 1, Sprite_transformed(sp[slot], c))

\* Scene::draw
Scene_draw(sp, kids, c) == Sprite_draw_children(sp, kids, 1, c)

\* the values the setters are called with, and the caller's contexts (the
\* scale field has no setter: it stays what from_texture made it)
Positions == { <<0, 0>>, <<3, 5>> }
Rotations == { 0, 90 }
Contexts == { identity, <<0, -1, 7, 1, 0, 2>> }

\* sprite.set_position(x, y), on a sprite the caller can reach
SetPosition ==
    /\ ~failed
    /\ \E s \in MutReachable, v \in Positions :
         /\ sprites[s].position # v
         /\ sprites' = [sprites EXCEPT ![s].position = v]
         /\ op' = [name |-> "set_position", on |-> s]
    /\ UNCHANGED <<detached, children, children_index, running, failed, ticks,
                   registered>>

\* sprite.set_rotation(deg)
SetRotation ==
    /\ ~failed
    /\ \E s \in MutReachable, v \in Rotations :
         /\ sprites[s].rotation # v
         /\ sprites' = [sprites EXCEPT ![s].rotation = v]
         /\ op' = [name |-> "set_rotation", on |-> s]
    /\ UNCHANGED <<detached, children, children_index, running, failed, ticks,
                   registered>>

\* sprite.set_flip_x(flip_x)
SetFlipX ==
    /\ ~failed
    /\ \E s \in MutReachable :
         /\ sprites' = [sprites EXCEPT ![s].flip_x = ~sprites[s].flip_x]
         /\ op' = [name |-> "set_flip_x", on |-> s]
    /\ UNCHANGED <<detached, children, children_index, running, failed, ticks,
                   registered>>

\* sprite.set_flip_y(flip_y)
SetFlipY ==
    /\ ~failed
    /\ \E s \in MutReachable :
         /\ sprites' = [sprites EXCEPT ![s].flip_y = ~sprites[s].flip_y]
         /\ op' = [name |-> "set_flip_y", on |-> s]
    /\ UNCHANGED <<detached, children, children_index, running, failed, ticks,
                   registered>>

\* scene.draw(c, b): op keeps the draw calls the backend received
Draw ==
    /\ ~failed
    /\ \E c \in Contexts :
         op' = [name |-> "draw", c |-> c, calls |-> Scene_draw(sprites, children, c)]
    /\ UNCHANGED <<sprites, detached, children, children_index, running, failed,
                   ticks, registered>>

DrawNext ==
    \/ SceneAddNew(DrawMaxSprites)
    \/ SpriteAddNew(DrawMaxSprites)
    \/ SetPosition
    \/ SetRotation
    \/ SetFlipX
    \/ SetFlipY
    \/ Draw

\* Building a tree, setting attributes and drawing.
SpecDraw == Init /\ [][DrawNext]_vars

----------------------------------------------------------------------------
(* Flips with an anchor off the centre. *)

\* the values set_anchor is called with, in halves: (0.5, 0.5) and (0, 1)
Anchors == { <<1, 1>>, <<0, 2>> }

\* sprite.set_anchor(x, y)
SetAnchor ==
    /\ ~failed
    /\ \E s \in MutReachable, v \in Anchors :
         /\ sprites[s].anchor # v
         /\ sprites' = [sprites EXCEPT ![s].anchor = v]
         /\ op' = [name |-> "set_anchor", on |-> s]
    /\ UNCHANGED <<detached, children, children_index, running, failed, ticks,
                   registered>>

FlipNext ==
    \/ SceneAddNew(FlipMaxSprites)
    \/ SpriteAddNew(FlipMaxSprites)
    \/ SetAnchor
    \/ SetFlipX
    \/ SetFlipY
    \/ Draw

\* Building a tree, setting anchors and flips, and drawing.
SpecFlip == Init /\ [][FlipNext]_vars

----------------------------------------------------------------------------
(* The bounding box. *)

\* Sprite::bounding_box with the position as the corner, whatever the anchor.
Sprite_bounding_box_TopLeft(sprite) ==
    << sprite.position[1], sprite.position[2],
       sprite.texture.w * sprite.scale[1], sprite.texture.h * sprite.scale[2] >>

\* Sprite::bounding_box (anchor is in halves)
Sprite_bounding_box(sprite) ==
    LET w == sprite.texture.w * sprite.scale[1]
        h == sprite.texture.h * sprite.scale[2]
    IN  << sprite.position[1] - (sprite.anchor[1] * w) \div 2,
           sprite.position[2] - (sprite.anchor[2] * h) \div 2,
           w, h >>

\* the sprite whose attributes the caller sets in the specification of the
\* bounding box: the first one it gave to the Scene
FirstSprite == IF children = <<>> THEN {} ELSE {children[1]}

\* the positions set there
BoxPositions == { <<0, 0>>, <<100, 100>> }

\* scene.child_mut(id).unwrap().set_position(x, y)
BoxSetPosition ==
    /\ ~failed
    /\ \E s \in FirstSprite, v \in BoxPositions :
         /\ sprites[s].position # v
         /\ sprites' = [sprites EXCEPT ![s].position = v]
         /\ op' = [name |-> "set_position", on |-> s]
    /\ UNCHANGED <<detached, children, children_index, running, failed, ticks,
                   registered>>

\* scene.child_mut(id).unwrap().set_anchor(x, y)
BoxSetAnchor ==
    /\ ~failed
    /\ \E s \in FirstSprite, v \in Anchors :
         /\ sprites[s].anchor # v
         /\ sprites' = [sprites EXCEPT ![s].anchor = v]
         /\ op' = [name |-> "set_anchor", on |-> s]
    /\ UNCHANGED <<detached, children, children_index, running, failed, ticks,
                   registered>>

\* scene.child_mut(id).unwrap().set_rotation(deg)
BoxSetRotation ==
    /\ ~failed
    /\ \E s \in FirstSprite, v \in Rotations :
         /\ sprites[s].rotation # v
         /\ sprites' = [sprites EXCEPT ![s].rotation = v]
         /\ op' = [name |-> "set_rotation", on |-> s]
    /\ UNCHANGED <<detached, children, children_index, running, failed, ticks,
                   registered>>

\* scene.child_mut(id).unwrap().set_flip_x(flip_x) and set_flip_y(flip_y)
BoxSetFlip ==
    /\ ~failed
    /\ \E s \in FirstSprite :
         \/ /\ sprites' = [sprites EXCEPT ![s].flip_x = ~sprites[s].flip_x]
            /\ op' = [name |-> "set_flip_x", on |-> s]
         \/ /\ sprites' = [sprites EXCEPT ![s].flip_y = ~sprites[s].flip_y]
            /\ op' = [name |-> "set_flip_y", on |-> s]
    /\ UNCHANGED <<detached, children, children_index, running, failed, ticks,
                   registered>>

\* scene.child(id).unwrap().bounding_box(), of any sprite of the tree
BoundingBox ==
    /\ ~failed
    /\ \E s \in MutReachable :
         op' = [name |-> "bounding_box", on |-> s,
                ret |-> Sprite_bounding_box(sprites[s])]
    /\ UNCHANGED <<sprites, detached, children, children_index, running, failed,
                   ticks, registered>>

BoxNext ==
    \/ SceneAddNew(BoxMaxSprites)
    \/ SpriteAddNew(BoxMaxSprites)
    \/ BoxSetPosition
    \/ BoxSetAnchor
    \/ BoxSetRotation
    \/ BoxSetFlip
    \/ BoundingBox

\* Building a tree, setting the attributes of one sprite and asking for
\* bounding boxes.
SpecBox == Init /\ [][BoxNext]_vars

----------------------------------------------------------------------------
(* The tree as a caller sees it, defined without the lookups. *)

\* the slots owned, at any depth, by the Scene
TreeSlots ==
    LET kids == { children[i] : i \in DOMAIN children }
    IN  kids \cup UNION { Descendants(sprites, k) : k \in kids }

AllUuids == { Uuid_new_v4(n) : n \in 0..Len(sprites) + 1 }

IdsOf(slots) == { sprites[s].id : s \in slots }

LookupNames == {"Scene::child", "Scene::child_mut", "Sprite::child", "Sprite::child_mut"}

----------------------------------------------------------------------------
(* Properties of the tree and of the lookups. *)

\* C1: every sprite that is in the Scene's tree, at whatever depth and
\* however it got there, is what Scene::child and Scene::child_mut return
\* for its id, in every state from the add_child on.
C1_ChildResolvesEveryEntity ==
    \A s \in TreeSlots :
        /\ Scene_child(sprites, children, children_index, sprites[s].id) = Some(s)
        /\ Scene_child_mut(sprites, children, children_index, sprites[s].id) = Some(s)

\* C1 witness: a sprite built with a child and a grandchild was just added
\* to the Scene, and the grandchild resolves through two scans.
C1_Witness ==
    /\ op.name = "Scene::add_child"
    /\ \E c \in DOMAIN sprites, g \in DOMAIN sprites :
         /\ c \in Descendants(sprites, op.arg)
         /\ g \in Descendants(sprites, c)
         /\ Scene_child(sprites, children, children_index, sprites[g].id) = Some(g)

\* C8: a lookup of an id that no sprite of the tree (of the subtree, for a
\* Sprite lookup) has returns None, and no lookup fails or changes the
\* tree or the running table.
C8_AbsentIdIsNone ==
    [][ op'.name \in LookupNames =>
          /\ UNCHANGED <<sprites, detached, children, children_index, running, failed>>
          /\ ( op'.name \in {"Scene::child", "Scene::child_mut"}
                /\ op'.arg \notin IdsOf(TreeSlots) )
             => op'.ret = None
          /\ ( op'.name \in {"Sprite::child", "Sprite::child_mut"}
                /\ op'.arg \notin IdsOf(Descendants(sprites, op'.on)) )
             => op'.ret = None ]_vars

\* C8 witness: a Scene lookup went through a nested tree and returned None.
C8_Witness ==
    /\ op.name \in {"Scene::child", "Scene::child_mut"}
    /\ op.ret = None
    /\ \E s \in TreeSlots : Descendants(sprites, s) # {}

\* C9: child and child_mut give the same answer for every id, at the
\* Scene and at every sprite.
C9_ChildAndChildMutAgree ==
    \A id \in AllUuids :
        /\ Scene_child(sprites, children, children_index, id)
             = Scene_child_mut(sprites, children, children_index, id)
        /\ \A s \in DOMAIN sprites :
             Sprite_child(sprites, s, id) = Sprite_child_mut(sprites, s, id)

\* C9 witness: both lookups have just found, by the scan, a sprite nested
\* below the second root child, and there is an id both miss.
C9_Witness ==
    /\ op.name = "Scene::child_mut"
    /\ op.ret # None
    /\ op.arg \notin DOMAIN children_index
    /\ Len(children) >= 2
    /\ op.ret[1] \in Descendants(sprites, children[2])
    /\ Scene_child(sprites, children, children_index, op.arg) = op.ret
    /\ Scene_child_mut(sprites, children, children_index, ForeignUuid) = None

----------------------------------------------------------------------------
(* Properties of the scheduler. *)

\* the pids of the pairs of a running table
Pids(run) == { run[id][i].pid : <<id, i>> \in UNION { {id} \X DOMAIN run[id] : id \in DOMAIN run } }

\* the pairs registered so far that are no longer in the table
Retired == (1..nreg) \ Pids(running)

\* the step is a call of update / of run_action
IsUpdate ==
    \/ ticks' = ticks + 1
    \/ running = EmptyMap /\ op'.name = "update" /\ op' # op
IsRunAction == nreg' = nreg + 1

\* the ids of the running table that resolve to a sprite of the tree
Resolvable == DOMAIN running \cap IdsOf(TreeSlots)

\* the entries of an update's log for the pair pid
EntriesOf(log, pid) == { k \in DOMAIN log : log[k].pid = pid }

\* C2: an update never fails; a pair whose id resolves to no sprite is
\* dropped, and every pair of every other id is advanced once and kept or
\* retired by its status.
C2_MissingTargetIsDropped ==
    [][ IsUpdate =>
          /\ ~failed'
          /\ \A id \in DOMAIN running \ Resolvable : id \notin DOMAIN running'
          /\ \A id \in Resolvable : \A i \in DOMAIN running[id] :
               /\ Cardinality(EntriesOf(op'.log, running[id][i].pid)) = 1
               /\ \A k \in EntriesOf(op'.log, running[id][i].pid) :
                    (op'.log[k].status = "Running")
                      <=> (running[id][i].pid \in Pids(running')) ]_vars

\* C3: a pair that reports Success on its first advance is not in the
\* table when that update is over, and its id is no key of the table if
\* it was the id's only pair; no update advances a pair that is no longer
\* in the table, and a pair that left the table never comes back.
C3_SuccessRetiresAtOnce ==
    [][ /\ Retired \subseteq Retired'
        /\ IsUpdate =>
             \A k \in DOMAIN op'.log :
                /\ op'.log[k].pid \notin Retired
                /\ (op'.log[k].status = "Success" /\ op'.log[k].n = 0) =>
                     /\ op'.log[k].pid \notin Pids(running')
                     /\ Len(running[op'.log[k].id]) = 1
                          => op'.log[k].id \notin DOMAIN running' ]_vars

\* C3 witness: an update has just retired a pair on its first advance, its
\* id left the table, and a pair of another id is still running.
C3_Witness ==
    /\ op.name = "update"
    /\ ~failed
    /\ \E k \in DOMAIN op.log :
         /\ op.log[k].status = "Success"
         /\ op.log[k].n = 0
         /\ op.log[k].id \notin DOMAIN running
    /\ running # EmptyMap

\* the behaviors that report Running on every advance
NeverEnds(b) == b = Action(Spin)

\* C4: a pair whose behavior never ends stays in the table of its id on
\* every step; an update advances it exactly once, from the cursor and the
\* ActionState the step found in the table, and no other step touches it.
C4_RunningPairPersists ==
    [][ \A id \in Resolvable : \A i \in DOMAIN running[id] :
          NeverEnds(running[id][i].a.b) =>
            /\ id \in DOMAIN running'
            /\ \E j \in DOMAIN running'[id] :
                 IF IsUpdate
                 THEN /\ running'[id][j].pid = running[id][i].pid
                      /\ running'[id][j].n = running[id][i].n + 1
                      /\ running'[id][j].a = running[id][i].a
                      /\ running'[id][j].s.elapsed =
                           op'.dt + (IF running[id][i].s = EmptyState THEN 0
                                     ELSE running[id][i].s.elapsed)
                      /\ Cardinality(EntriesOf(op'.log, running[id][i].pid)) = 1
                 ELSE running'[id][j] = running[id][i] ]_vars

\* the run_action calls made with id so far
CallsWith(id) == { k \in DOMAIN registered : registered[k] = id }

\* C5: two run_action calls with one id make two pairs that advance
\* independently.  In an update, a pair of such an id that reports Running
\* stays in the list with the cursor and the state its own advance
\* produced, a pair that reports anything else is the only one removed, and
\* the order is kept; once a pair of the id has retired, every update
\* advances each remaining pair of the id exactly once.
C5_PairsOfOneIdAreIndependent ==
    [][ IsUpdate =>
          \A id \in Resolvable :
             Cardinality(CallsWith(id)) >= 2 =>
               /\ \A i \in DOMAIN running[id] :
                    /\ \A k \in EntriesOf(op'.log, running[id][i].pid) :
                         IF op'.log[k].status = "Running"
                         THEN /\ id \in DOMAIN running'
                              /\ \E j \in DOMAIN running'[id] :
                                   running'[id][j] =
                                     [a |-> op'.log[k].a, s |-> op'.log[k].s,
                                      pid |-> running[id][i].pid,
                                      n |-> running[id][i].n + 1]
                         ELSE running[id][i].pid \notin Pids(running')
                    /\ CallsWith(id) \cap Retired # {} =>
                         Cardinality(EntriesOf(op'.log, running[id][i].pid)) = 1
               /\ id \in DOMAIN running' =>
                    \A j1, j2 \in DOMAIN running'[id] :
                       j1 < j2 => running'[id][j1].pid < running'[id][j2].pid ]_vars

\* C6: between calls every key of the running table has a non-empty list,
\* and an id whose pairs all retired in an update is no key after it.
C6_NoEmptyRunningList ==
    [][ /\ \A id \in DOMAIN running' : Len(running'[id]) > 0
        /\ IsUpdate =>
             \A id \in DOMAIN running :
                (\A i \in DOMAIN running[id] :
                    \E k \in EntriesOf(op'.log, running[id][i].pid) :
                       op'.log[k].status # "Running")
                => id \notin DOMAIN running' ]_vars

\* C6 witness: an update retired every pair of one id, which left the
\* table, while another id kept a pair.
C6_Witness ==
    /\ op.name = "update"
    /\ ~failed
    /\ \E k \in DOMAIN op.log : op.log[k].id \notin DOMAIN running
    /\ \E id \in DOMAIN running : Len(running[id]) > 0

\* C7: run_action(id, behavior) appends the pair (State::new(behavior),
\* EmptyState) to the list of id, which it creates if there is none; the
\* pairs already in that list, the lists of the other ids and the tree stay
\* as they are.
C7_RunActionAppendsOnePair ==
    [][ IsRunAction =>
          /\ DOMAIN running' = DOMAIN running \cup {op'.id}
          /\ running'[op'.id] =
               Append(IF op'.id \in DOMAIN running THEN running[op'.id] ELSE <<>>,
                      [a |-> State_new(op'.action), s |-> EmptyState,
                       pid |-> nreg + 1, n |-> 0])
          /\ \A id \in DOMAIN running \ {op'.id} : running'[id] = running[id]
          /\ UNCHANGED <<sprites, detached, children, children_index, failed>> ]_vars

\* C7 witness: run_action has just appended a second pair to the list of
\* an id whose first pair had already been advanced and bound.
C7_Witness ==
    /\ op.name = "run_action"
    /\ Len(running[op.id]) = 2
    /\ running[op.id][1].n > 0
    /\ running[op.id][1].s # EmptyState
    /\ running[op.id][2].s = EmptyState

----------------------------------------------------------------------------
(* Properties of drawing. *)

\* the sprite that owns the sprite in slot s, None for a child of the Scene
Parent(s) ==
    IF \E p \in DOMAIN sprites : \E i \in DOMAIN sprites[p].children :
          sprites[p].children[i] = s
    THEN Some(CHOOSE p \in DOMAIN sprites :
                 \E i \in DOMAIN sprites[p].children : sprites[p].children[i] = s)
    ELSE None

\* translate(position) * rotate(rotation) * scale(scale) of one sprite
Local(s) ==
    multiply(translate(sprites[s].position[1], sprites[s].position[2]),
             multiply(rotate_deg(sprites[s].rotation),
                      scale_matrix(sprites[s].scale[1], sprites[s].scale[2])))

RECURSIVE World(_, _)
\* the caller's context composed with the local transforms of the
\* ancestors of s, from the root down, and of s
World(c, s) ==
    IF Parent(s) = None THEN multiply(c, Local(s))
    ELSE multiply(World(c, Parent(s)[1]), Local(s))

\* a matrix applied to the point (0, 0)
Origin(m) == <<m[3], m[6]>>

\* C10: every sprite of the tree is drawn once, under the caller's context
\* composed with translate, rotate, scale of each ancestor from the root
\* down and then of the sprite itself; a child is drawn under its parent's
\* composed transform times its own local transform.
C10_DrawComposesDownTheTree ==
    op.name = "draw" =>
      /\ { op.calls[k].sprite : k \in DOMAIN op.calls } = TreeSlots
      /\ Len(op.calls) = Cardinality(TreeSlots)
      /\ \A k \in DOMAIN op.calls :
           /\ op.calls[k].transformed = World(op.c, op.calls[k].sprite)
           /\ (~sprites[op.calls[k].sprite].flip_x /\ ~sprites[op.calls[k].sprite].flip_y)
                => op.calls[k].model = World(op.c, op.calls[k].sprite)
           /\ Parent(op.calls[k].sprite) # None =>
                \E j \in DOMAIN op.calls :
                   /\ op.calls[j].sprite = Parent(op.calls[k].sprite)[1]
                   /\ op.calls[k].transformed =
                        multiply(op.calls[j].transformed, Local(op.calls[k].sprite))
                   /\ Origin(op.calls[k].transformed) =
                        Origin(multiply(op.calls[j].transformed,
                                        Local(op.calls[k].sprite)))

\* C10 witness: a draw under a context that is not the identity of a parent
\* that is moved and turned and its child that is moved, the child's origin
\* being neither the caller's nor the parent's.
C10_Witness ==
    /\ op.name = "draw"
    /\ op.c # identity
    /\ \E k, j \in DOMAIN op.calls :
         /\ Parent(op.calls[k].sprite) = Some(op.calls[j].sprite)
         /\ sprites[op.calls[j].sprite].position # <<0, 0>>
         /\ sprites[op.calls[j].sprite].rotation # 0
         /\ sprites[op.calls[k].sprite].position # <<0, 0>>
         /\ Origin(op.calls[k].transformed) # Origin(op.calls[j].transformed)
         /\ Origin(op.calls[k].transformed) # Origin(op.c)

\* anchor * texture size of the sprite in slot s, per axis (anchor in halves)
AnchorOffset(s) ==
    << (sprites[s].anchor[1] * sprites[s].texture.w) \div 2,
       (sprites[s].anchor[2] * sprites[s].texture.h) \div 2 >>

\* What the flips of the sprite in slot s do to its draw rectangle: along x,
\* a shift by width - 2 * anchor offset and a mirror when flip_x is set,
\* nothing otherwise; the same along y for flip_y.
FlipOf(s) ==
    << IF sprites[s].flip_x THEN -1 ELSE 1,
       0,
       IF sprites[s].flip_x THEN sprites[s].texture.w - 2 * AnchorOffset(s)[1] ELSE 0,
       0,
       IF sprites[s].flip_y THEN -1 ELSE 1,
       IF sprites[s].flip_y THEN sprites[s].texture.h - 2 * AnchorOffset(s)[2] ELSE 0 >>

\* C11: a sprite is drawn under its composed transform followed by the
\* shift and mirror of each flag that is set, each along its own axis; the
\* rectangle is [-anchor offset, texture size] whatever the flags, and the
\* transform a child composes with is the parent's without the flips.
C11_FlipsShiftTheirOwnAxis ==
    op.name = "draw" =>
      \A k \in DOMAIN op.calls :
         /\ op.calls[k].model =
              multiply(op.calls[k].transformed, FlipOf(op.calls[k].sprite))
         /\ op.calls[k].rect =
              << -AnchorOffset(op.calls[k].sprite)[1],
                 -AnchorOffset(op.calls[k].sprite)[2],
                 sprites[op.calls[k].sprite].texture.w,
                 sprites[op.calls[k].sprite].texture.h >>
         /\ op.calls[k].transformed = World(op.c, op.calls[k].sprite)
         /\ Parent(op.calls[k].sprite) # None =>
              \E j \in DOMAIN op.calls :
                 /\ op.calls[j].sprite = Parent(op.calls[k].sprite)[1]
                 /\ op.calls[k].transformed =
                      multiply(op.calls[j].transformed, Local(op.calls[k].sprite))

\* C11 witness: a draw under a context that is not the identity of a sprite
\* with both flags set and its anchor off the centre, so that both shifts
\* are not zero, and of its child, which has one flag set.
C11_Witness ==
    /\ op.name = "draw"
    /\ op.c # identity
    /\ \E k, j \in DOMAIN op.calls :
         /\ Parent(op.calls[k].sprite) = Some(op.calls[j].sprite)
         /\ sprites[op.calls[j].sprite].flip_x
         /\ sprites[op.calls[j].sprite].flip_y
         /\ FlipOf(op.calls[j].sprite)[3] # 0
         /\ FlipOf(op.calls[j].sprite)[6] # 0
         /\ FlipOf(op.calls[j].sprite)[3] # FlipOf(op.calls[j].sprite)[6]
         /\ op.calls[j].model # op.calls[j].transformed
         /\ sprites[op.calls[k].sprite].flip_x
         /\ ~sprites[op.calls[k].sprite].flip_y

\* C12: bounding_box returns [position.x - anchor.x * w, position.y -
\* anchor.y * h, w, h], w and h being the texture's size times the scale;
\* two sprites that agree on position, anchor, scale and texture have the
\* same box whatever their rotation, flips and children; and a 64x64
\* sprite at (100, 100) with anchor (0.5, 0.5), rotation 0 and scale
\* (1, 1) has the box [68, 68, 64, 64].
C12_BoundingBoxIsLocal ==
    op.name = "bounding_box" =>
      /\ op.ret =
           << sprites[op.on].position[1]
                - (sprites[op.on].anchor[1]
                     * (sprites[op.on].texture.w * sprites[op.on].scale[1])) \div 2,
              sprites[op.on].position[2]
                - (sprites[op.on].anchor[2]
                     * (sprites[op.on].texture.h * sprites[op.on].scale[2])) \div 2,
              sprites[op.on].texture.w * sprites[op.on].scale[1],
              sprites[op.on].texture.h * sprites[op.on].scale[2] >>
      /\ \A s \in DOMAIN sprites :
           ( /\ sprites[s].position = sprites[op.on].position
             /\ sprites[s].anchor = sprites[op.on].anchor
             /\ sprites[s].scale = sprites[op.on].scale
             /\ sprites[s].texture = sprites[op.on].texture )
           => Sprite_bounding_box(sprites[s]) = op.ret
      /\ ( /\ sprites[op.on].texture = [w |-> 64, h |-> 64]
           /\ sprites[op.on].anchor = <<1, 1>>
           /\ sprites[op.on].position = <<100, 100>>
           /\ sprites[op.on].rotation = 0
           /\ sprites[op.on].scale = <<1, 1>> )
         => op.ret = <<68, 68, 64, 64>>

\* C12 witness: the box [68, 68, 64, 64] was returned for a flipped sprite
\* at (100, 100) that has a child.
C12_Witness ==
    /\ op.name = "bounding_box"
    /\ op.ret = <<68, 68, 64, 64>>
    /\ sprites[op.on].position = <<100, 100>>
    /\ sprites[op.on].rotation = 0
    /\ sprites[op.on].flip_x
    /\ sprites[op.on].children # <<>>

----------------------------------------------------------------------------
(* Properties of one update, read from the log of its advances. *)

\* the pairs of a running table
AllPairs(run) == UNION { { run[id][i] : i \in DOMAIN run[id] } : id \in DOMAIN run }

\* C13: in an update every pair that was Unbound is bound to its target,
\* found by the pair's id and seeded from the target as it is then, before
\* the evaluator advances the pair; so every advanced pair, and every pair
\* that is in the table after the update, is Bound, whether or not the
\* evaluator called the leaf action.
C13_UnboundIsBoundEachTick ==
    op.name = "update" =>
      /\ \A k \in DOMAIN op.log :
           /\ op.log[k].before.id = op.log[k].id
           /\ op.log[k].s # EmptyState
           /\ (op.log[k].s0 = EmptyState /\ op.log[k].s.kind = "MoveBy")
                => op.log[k].s.start = op.log[k].before.position
      /\ \A pr \in AllPairs(running) : pr.s # EmptyState

\* C13 as the code has it: a pair that was Unbound is bound by the first
\* leaf call the evaluator makes for it, to the target found by the pair's
\* id and seeded from the target as it is then; an advance without a leaf
\* call leaves the ActionState and the target as they were.  A pair in the
\* table after an update carries the state its advance left, and is
\* Unbound exactly if it was Unbound and no leaf call was made.
C13_BoundAtFirstLeafCall ==
    op.name = "update" =>
      /\ \A k \in DOMAIN op.log :
           /\ op.log[k].before.id = op.log[k].id
           /\ op.log[k].calls = 0 =>
                (op.log[k].s = op.log[k].s0 /\ op.log[k].after = op.log[k].before)
           /\ op.log[k].calls > 0 => op.log[k].s # EmptyState
           /\ (op.log[k].s0 = EmptyState /\ op.log[k].calls > 0
                 /\ op.log[k].s.kind = "MoveBy")
                => op.log[k].s.start = op.log[k].before.position
      /\ \A pr \in AllPairs(running) :
           \E k \in DOMAIN op.log :
              /\ op.log[k].pid = pr.pid
              /\ op.log[k].status = "Running"
              /\ pr.a = op.log[k].a
              /\ pr.s = op.log[k].s
              /\ (pr.s = EmptyState)
                   <=> (op.log[k].s0 = EmptyState /\ op.log[k].calls = 0)

\* C13 witness: after an update, one pair that was advanced without a leaf
\* call is in the table Unbound, and another that was Unbound is in the
\* table bound to where its target was.
C13_Witness ==
    /\ op.name = "update"
    /\ ~failed
    /\ \E p1, p2 \in AllPairs(running) :
         /\ p1.s = EmptyState
         /\ p1.n = 1
         /\ p2.s # EmptyState
         /\ \E k \in DOMAIN op.log :
              /\ op.log[k].pid = p2.pid
              /\ op.log[k].s0 = EmptyState
              /\ op.log[k].s.kind = "MoveBy"
              /\ op.log[k].s.start = op.log[k].before.position

\* the entry of a log for the pair pid
EntryOf(log, pid) == log[CHOOSE k \in DOMAIN log : log[k].pid = pid]

\* a pair of the table as the advance recorded in entry e leaves it
AdvancedPair(pair, e) ==
    [a |-> e.a, s |-> e.s, pid |-> pair.pid, n |-> pair.n + 1]

RECURSIVE Survivors(_, _, _)
\* the pairs of list, from the i-th on, whose status in log is Running, as
\* their advance left them and in the order of list
Survivors(list, log, i) ==
    IF i > Len(list) THEN <<>>
    ELSE (IF EntryOf(log, list[i].pid).status = "Running"
          THEN <<AdvancedPair(list[i], EntryOf(log, list[i].pid))>>
          ELSE <<>>)
         \o Survivors(list, log, i + 1)

\* C14: when update returns, every pair of the table it found was advanced
\* once, and the table holds, under each id, exactly the pairs of that id
\* whose status was Running, with the cursor and the ActionState of this
\* advance and in their previous order; pairs whose status was Success or
\* Failure are gone, and an id without a Running pair is no key.
C14_TableIsTheRunningPairs ==
    [][ (IsUpdate /\ ~failed') =>
          /\ \A id \in DOMAIN running : \A i \in DOMAIN running[id] :
               Cardinality(EntriesOf(op'.log, running[id][i].pid)) = 1
          /\ DOMAIN running' \subseteq DOMAIN running
          /\ \A id \in DOMAIN running :
               IF Survivors(running[id], op'.log, 1) = <<>>
               THEN id \notin DOMAIN running'
               ELSE /\ id \in DOMAIN running'
                    /\ running'[id] = Survivors(running[id], op'.log, 1) ]_vars

\* C14 witness: update has returned; of two pairs of one id the first
\* reported Failure and is gone, the second reported Running and is the
\* id's list, advanced.
C14_Witness ==
    /\ op.name = "update"
    /\ ~failed
    /\ Len(op.log) = 2
    /\ op.log[1].id = op.log[2].id
    /\ op.log[1].status = "Failure"
    /\ op.log[2].status = "Running"
    /\ op.log[2].s # op.log[2].s0
    /\ Len(running[op.log[2].id]) = 1
    /\ running[op.log[2].id][1].pid = op.log[2].pid
    /\ running[op.log[2].id][1].s = op.log[2].s

\* the entries of a log for the pairs of id, in the order of the log
LogOf(log, id) == SelectSeq(log, LAMBDA e : e.id = id)

\* the slot of the sprite that has id
SlotOf(id) == CHOOSE s \in DOMAIN sprites : sprites[s].id = id

\* the pids of a sequence of pairs or of log entries
PidsIn(seq) == [i \in DOMAIN seq |-> seq[i].pid]

\* es, the entries of one update's log for one id, record the pairs of
\* list advanced in the order of list: the j-th entry took the j-th pair
\* as it was, found the sprite as `before` had it (j = 1) or as the entry
\* before left it, and bound the pair, if it did, from the sprite it found
InListOrder(es, list, before) ==
    \A j \in DOMAIN es :
       /\ es[j].a0 = list[j].a
       /\ es[j].s0 = list[j].s
       /\ es[j].before = IF j = 1 THEN before ELSE es[j - 1].after
       /\ j > 1 => es[j - 1].pid < es[j].pid
       /\ (es[j].s0 = EmptyState /\ es[j].calls > 0 /\ es[j].s.kind = "MoveBy")
            => es[j].s.start = es[j].before.position

\* C15: in one update the pairs of one sprite are advanced one after
\* another, without a pair of another id in between, in the order of the
\* run_action calls that made them; the first finds the sprite as it was
\* before the update, each later one finds it as the pair before left it,
\* a pair bound in this update is seeded from the sprite as it finds it,
\* and the sprite is left as the last pair left it.
C15_PairsSeeEarlierPairsOfTheTick ==
    [][ IsUpdate =>
          /\ \A k1, k2, k3 \in DOMAIN op'.log :
               (k1 < k2 /\ k2 < k3 /\ op'.log[k1].id = op'.log[k3].id)
                 => op'.log[k2].id = op'.log[k1].id
          /\ \A id \in Resolvable :
               LET es == LogOf(op'.log, id)
               IN  /\ \/ es = <<>> /\ failed'
                      \/ PidsIn(es) = PidsIn(running[id])
                   /\ InListOrder(es, running[id], sprites[SlotOf(id)])
                   /\ es # <<>> => sprites'[SlotOf(id)] = es[Len(es)].after ]_vars

\* C15 witness: in one update the first pair of a sprite moved it, and the
\* second pair of the sprite, registered later and bound in this update,
\* starts from where the first left the sprite.
C15_Witness ==
    /\ op.name = "update"
    /\ Len(op.log) = 2
    /\ op.log[1].id = op.log[2].id
    /\ op.log[1].pid < op.log[2].pid
    /\ op.log[1].after.position # op.log[1].before.position
    /\ op.log[2].before = op.log[1].after
    /\ op.log[2].s0 = EmptyState
    /\ op.log[2].s.kind = "MoveBy"
    /\ op.log[2].s.start = op.log[1].after.position
    /\ op.log[2].s.start # <<0, 0>>

----------------------------------------------------------------------------
(* Properties of children_index. *)

\* children_index `index` is exact for the children `kids`: one entry per
\* child, under the child's id and holding the child's (0-based) place, and
\* no entry for a sprite below a child
IndexIsExact(sp, kids, index) ==
    /\ DOMAIN index = { sp[kids[i]].id : i \in DOMAIN kids }
    /\ Cardinality(DOMAIN index) = Len(kids)
    /\ \A id \in DOMAIN index : \A i \in 0..(Len(kids) - 1) :
         (index[id] = i) <=> (sp[kids[i + 1]].id = id)
    /\ \A i \in DOMAIN kids : \A d \in Descendants(sp, kids[i]) :
         sp[d].id \notin DOMAIN index

\* seq is seq2 or a beginning of it
IsPrefix(seq, seq2) ==
    /\ Len(seq) <= Len(seq2)
    /\ \A i \in DOMAIN seq : seq2[i] = seq[i]

\* every entry of index is in index2, unchanged
IsKept(index, index2) ==
    \A id \in DOMAIN index : id \in DOMAIN index2 /\ index2[id] = index[id]

\* C16: the children_index of the Scene and of every sprite is exact in
\* every state; no step removes or changes an entry or a child, children
\* grow at the end only, no sprite changes its id, and add_child returns
\* the id the sprite had before it was added.
C16_IndexIsExactAndOnlyGrows ==
    [][ /\ IndexIsExact(sprites, children, children_index)
        /\ IndexIsExact(sprites', children', children_index')
        /\ \A s \in DOMAIN sprites' :
             IndexIsExact(sprites', sprites'[s].children, sprites'[s].children_index)
        /\ IsPrefix(children, children')
        /\ IsKept(children_index, children_index')
        /\ \A s \in DOMAIN sprites :
             /\ s \in DOMAIN sprites'
             /\ sprites'[s].id = sprites[s].id
             /\ IsPrefix(sprites[s].children, sprites'[s].children)
             /\ IsKept(sprites[s].children_index, sprites'[s].children_index)
        /\ (op'.name \in {"Scene::add_child", "Sprite::add_child"} /\ op' # op) =>
             /\ op'.arg \in DOMAIN sprites =>
                  op'.ret = sprites[op'.arg].id
             /\ op'.ret = sprites'[op'.arg].id
             /\ op'.name = "Scene::add_child" =>
                  (children' = Append(children, op'.arg)
                   /\ children_index'[op'.ret] = Len(children))
             /\ op'.name = "Sprite::add_child" =>
                  (sprites'[op'.on].children
                     = Append(sprites[op'.on].children, op'.arg)
                   /\ sprites'[op'.on].children_index[op'.ret]
                        = Len(sprites[op'.on].children)) ]_vars

\* C16 witness: a sprite that has a child of its own was just added to a
\* sprite of the Scene; the parent's index holds the new child at its
\* place and not the grandchild.
C16_Witness ==
    /\ op.name = "Sprite::add_child"
    /\ op.ret = sprites[op.arg].id
    /\ op.on \in TreeSlots
    /\ Descendants(sprites, op.arg) # {}
    /\ sprites[op.on].children = <<op.arg>>
    /\ sprites[op.on].children_index[op.ret] = 0
    /\ \A d \in Descendants(sprites, op.arg) :
         sprites[d].id \notin DOMAIN sprites[op.on].children_index

----------------------------------------------------------------------------
(* Properties of the calls of the closure within one advance. *)

\* the ActionState the m-th call of the closure in entry e should find: the
\* pair's own at the first call, what the call before left at the others
Carried(e, m) == IF m = 1 THEN e.s0 ELSE e.leafs[m - 1].left

\* C17: each call of the closure finds the state the pair carries; it binds
\* (action.to_state on the target) exactly when that state is Unbound, and
\* otherwise calls update on the carried state, whichever leaf action the
\* evaluator passed; update is never called on an Unbound state; a pair is
\* bound at most once in an advance and a pair that was Bound is never
\* left Unbound.
C17_BindOnlyWhenUnbound ==
    op.name = "update" =>
      \A k \in DOMAIN op.log :
         /\ Len(op.log[k].leafs) = op.log[k].calls
         /\ \A m \in DOMAIN op.log[k].leafs :
              /\ op.log[k].leafs[m].found = Carried(op.log[k], m)
              /\ op.log[k].leafs[m].given # EmptyState
              /\ op.log[k].leafs[m].found # EmptyState =>
                   op.log[k].leafs[m].given = op.log[k].leafs[m].found
              /\ op.log[k].leafs[m].found = EmptyState =>
                   op.log[k].leafs[m].given =
                     Action_to_state(op.log[k].leafs[m].action,
                                     op.log[k].leafs[m].target)
              /\ op.log[k].leafs[m].left # EmptyState
         /\ Cardinality({ m \in DOMAIN op.log[k].leafs :
                             op.log[k].leafs[m].found = EmptyState }) <= 1
         /\ op.log[k].s = Carried(op.log[k], Len(op.log[k].leafs) + 1)
         /\ op.log[k].s0 # EmptyState => op.log[k].s # EmptyState

\* C17 witness: in the second advance of a sequence the closure was called
\* twice, first with the leaf action the pair was bound for and then with
\* the next leaf action of the sequence, and the second call used the
\* state the first call left.
C17_Witness ==
    /\ op.name = "update"
    /\ \E k \in DOMAIN op.log :
         /\ op.log[k].n = 1
         /\ op.log[k].s0 # EmptyState
         /\ Len(op.log[k].leafs) = 2
         /\ op.log[k].leafs[1].action # op.log[k].leafs[2].action
         /\ op.log[k].leafs[2].given = op.log[k].leafs[1].left
         /\ op.log[k].leafs[2].given
              # Action_to_state(op.log[k].leafs[2].action, op.log[k].leafs[2].target)

----------------------------------------------------------------------------
(* What update leaves alone. *)

\* C18: an update changes the running table and attributes of the sprites
\* whose id is a key of the table it found, and nothing else: the sprites
\* there are, their ids, the children and the children_index of the Scene
\* and of every sprite are as before, and a sprite whose id is no key of
\* the table keeps every attribute.
C18_UpdateKeepsTheTree ==
    [][ IsUpdate =>
          /\ children' = children
          /\ children_index' = children_index
          /\ detached' = detached
          /\ DOMAIN sprites' = DOMAIN sprites
          /\ \A s \in DOMAIN sprites :
               /\ sprites'[s].id = sprites[s].id
               /\ sprites'[s].children = sprites[s].children
               /\ sprites'[s].children_index = sprites[s].children_index
               /\ sprites[s].id \notin DOMAIN running => sprites'[s] = sprites[s] ]_vars

\* C18 witness: an update has changed an attribute of a sprite that has a
\* parent, and no pair had the parent for its target.
C18_Witness ==
    /\ op.name = "update"
    /\ \E k \in DOMAIN op.log :
         /\ op.log[k].after # op.log[k].before
         /\ sprites[SlotOf(op.log[k].id)] = op.log[k].after
         /\ Parent(SlotOf(op.log[k].id)) # None
         /\ \A j \in DOMAIN op.log :
              op.log[j].id # sprites[Parent(SlotOf(op.log[k].id))[1]].id

----------------------------------------------------------------------------
(* The order of the ids. *)

\* C19: the sprites and the running table an update leaves are the ones it
\* would have left had the HashMap handed out the ids of the table in any
\* other order.
C19_UpdateIsOrderIndependent ==
    [][ IsUpdate =>
          \A order \in Orders(DOMAIN running) :
             /\ Scene_update(sprites, children, children_index, running, order,
                             op'.dt).sprites = sprites'
             /\ Scene_update(sprites, children, children_index, running, order,
                             op'.dt).running = running' ]_vars

====
